---- MODULE Spec2Model ----
(***************************************************************************)
(* Model of server.js: the three mockup endpoints (/generate, /preview,    *)
(* /finalize-for-shopify), the Cloudinary upload helper and the texture    *)
(* memoization helper.                                                     *)
(*                                                                         *)
(* Conventions:                                                            *)
(*  - a JS string is a tuple of one-character strings, <<"1","0">> is      *)
(*    "10"; the value undefined is the one-token tuple Undef (it turns     *)
(*    into the text "undefined" wherever JS would stringify it);           *)
(*  - a JS number is an IEEE 754 double: <<sign, m, e>> is sign * m * 2^e,  *)
(*    m a natural number of any size written in base 2^15; <<1, 0>> and    *)
(*    <<-1, 0>> are Infinity and -Infinity, <<0>> is NaN.  Parsing and     *)
(*    arithmetic round to the nearest double as the program's do;          *)
(*  - an image is described by its pixel dimensions <<w, h>>.              *)
(***************************************************************************)
EXTENDS Integers, Sequences, FiniteSets, TLC

(***************************************************************************)
(* Natural numbers of any size                                             *)
(***************************************************************************)
\* A natural number is the tuple of its digits in base 2^15, the least
\* significant first and the most significant not 0; <<>> is 0.
LimbBits == 15

Base == 32768

Max(a, b) == IF a >= b THEN a ELSE b

Min(a, b) == IF a <= b THEN a ELSE b

Abs(n) == IF n < 0 THEN 0 - n ELSE n

RECURSIVE Pow2(_)
Pow2(k) == IF k = 0 THEN 1 ELSE 2 * Pow2(k - 1)

RECURSIVE Pow10(_)
Pow10(k) == IF k = 0 THEN 1 ELSE 10 * Pow10(k - 1)

\* number of bits of the integer n >= 0
RECURSIVE IntBitLen(_)
IntBitLen(n) == IF n = 0 THEN 0 ELSE 1 + IntBitLen(n \div 2)

\* number of 0 bits at the low end of the integer n > 0
RECURSIVE IntTrailingZeros(_)
IntTrailingZeros(n) == IF n % 2 = 1 THEN 0 ELSE 1 + IntTrailingZeros(n \div 2)

Limb(a, i) == IF 1 <= i /\ i <= Len(a) THEN a[i] ELSE 0

\* the tuple of the n values that f has on 1..n
TupleOf(f, n) == IF n <= 0 THEN <<>> ELSE SubSeq(f, 1, n)

\* a without the 0 digits at its high end
BigTrim(a) ==
    IF \A i \in 1..Len(a) : a[i] = 0 THEN <<>>
    ELSE SubSeq(a, 1, CHOOSE i \in 1..Len(a) :
                        a[i] # 0 /\ \A k \in (i + 1)..Len(a) : a[k] = 0)

\* the integer 0 <= n < 2^31
BigOfInt(n) ==
    BigTrim(<<n % Base, (n \div Base) % Base, n \div (Base * Base)>>)

\* The digits x[lo..hi], each an integer that need not be under the base,
\* brought under the base with the carry c coming in: <<digits, carry out>>.
RECURSIVE Carried(_, _, _, _)
RECURSIVE CarriedHigh(_, _, _, _)
Carried(x, lo, hi, c) ==
    IF lo > hi THEN <<<<>>, c>>
    ELSE IF lo = hi THEN << <<(x[lo] + c) % Base>>, (x[lo] + c) \div Base >>
    ELSE CarriedHigh(x, (lo + hi) \div 2, hi, Carried(x, lo, (lo + hi) \div 2, c))

CarriedHigh(x, mid, hi, low) ==
    LET high == Carried(x, mid + 1, hi, low[2])
    IN  <<low[1] \o high[1], high[2]>>

\* the natural number whose digits are x before the carries
BigNorm(x) ==
    IF x = <<>> THEN <<>>
    ELSE LET r == Carried(x, 1, Len(x), 0)
         IN  BigTrim(r[1] \o BigOfInt(r[2]))

BigAdd(a, b) ==
    IF a = <<>> THEN b
    ELSE IF b = <<>> THEN a
    ELSE BigNorm(TupleOf([i \in 1..Max(Len(a), Len(b)) |-> Limb(a, i) + Limb(b, i)],
                    Max(Len(a), Len(b))))

\* a - b for a >= b
BigSub(a, b) ==
    IF b = <<>> THEN a
    ELSE IF a = b THEN <<>>
    ELSE BigNorm(TupleOf([i \in 1..Len(a) |-> a[i] - Limb(b, i)], Len(a)))

\* a * m for an integer 0 <= m <= 2^15
BigMulSmall(a, m) ==
    IF a = <<>> \/ m = 0 THEN <<>>
    ELSE IF m = 1 THEN a
    ELSE BigNorm(TupleOf([i \in 1..Len(a) |-> a[i] * m], Len(a)))

\* a * 2^(15 k)
ShiftLimbs(a, k) ==
    IF a = <<>> \/ k = 0 THEN a
    ELSE TupleOf([i \in 1..(Len(a) + k) |-> IF i <= k THEN 0 ELSE a[i - k]],
                 Len(a) + k)

\* a * 2^k
BigShiftLeft(a, k) ==
    IF a = <<>> \/ k = 0 THEN a
    ELSE ShiftLimbs(BigMulSmall(a, Pow2(k % LimbBits)), k \div LimbBits)

\* floor(a / 2^k): w whole digits and r bits are dropped
BigShiftRight(a, k) ==
    IF a = <<>> \/ k = 0 THEN a
    ELSE LET w == k \div LimbBits
             r == k % LimbBits
         IN  BigTrim(TupleOf([i \in 1..(Len(a) - w) |->
                                (a[i + w] \div Pow2(r))
                                + (Limb(a, i + w + 1) % Pow2(r)) * Pow2(LimbBits - r)],
                             Len(a) - w))

\* number of bits of a
BigBitLen(a) ==
    IF a = <<>> THEN 0 ELSE LimbBits * (Len(a) - 1) + IntBitLen(a[Len(a)])

\* bit i of a, bit 0 the lowest
BigBit(a, i) == (Limb(a, i \div LimbBits + 1) \div Pow2(i % LimbBits)) % 2

\* whether the k low bits of a are 0
BigLowZero(a, k) ==
    /\ \A i \in 1..(k \div LimbBits) : Limb(a, i) = 0
    /\ Limb(a, k \div LimbBits + 1) % Pow2(k % LimbBits) = 0

\* number of 0 bits at the low end of a > 0
BigTrailingZeros(a) ==
    LET low == CHOOSE i \in 1..Len(a) : a[i] # 0 /\ \A k \in 1..(i - 1) : a[k] = 0
    IN  LimbBits * (low - 1) + IntTrailingZeros(a[low])

\* -1, 0 or 1 as a is under, equal to or over b
BigCmp(a, b) ==
    IF Len(a) # Len(b) THEN (IF Len(a) < Len(b) THEN -1 ELSE 1)
    ELSE IF a = b THEN 0
    ELSE LET top == CHOOSE i \in 1..Len(a) :
                        a[i] # b[i] /\ \A k \in (i + 1)..Len(a) : a[k] = b[k]
         IN  IF a[top] < b[top] THEN -1 ELSE 1

\* a times the digits lo..hi of b, in their places
RECURSIVE MulRange(_, _, _, _)
MulRange(a, b, lo, hi) ==
    IF lo = hi THEN ShiftLimbs(BigMulSmall(a, b[lo]), lo - 1)
    ELSE BigAdd(MulRange(a, b, lo, (lo + hi) \div 2),
                MulRange(a, b, (lo + hi) \div 2 + 1, hi))

BigMul(a, b) ==
    IF a = <<>> \/ b = <<>> THEN <<>> ELSE MulRange(a, b, 1, Len(b))

\* <<q, r>> with num = q * den + r and r < den, for a quotient under 2^n: the
\* high bits of the quotient first, then the low bits from what remains
RECURSIVE DivBits(_, _, _)
RECURSIVE DivLow(_, _, _)
DivBits(num, den, n) ==
    IF n = 1
      THEN IF BigCmp(num, den) >= 0 THEN <<<<1>>, BigSub(num, den)>>
                                    ELSE <<<<>>, num>>
      ELSE DivLow(den, n \div 2,
                  DivBits(num, BigShiftLeft(den, n \div 2), n - n \div 2))

DivLow(den, h, high) ==
    LET low == DivBits(high[2], den, h)
    IN  IF high[1] = <<>> THEN low
        ELSE IF low[1] = <<>> THEN <<BigShiftLeft(high[1], h), low[2]>>
        ELSE <<BigAdd(BigShiftLeft(high[1], h), low[1]), low[2]>>

\* 10^k
RECURSIVE BigPow10(_)
BigPow10(k) ==
    IF k <= 4 THEN BigOfInt(Pow10(k))
    ELSE IF k % 2 = 1 THEN BigMulSmall(BigPow10(k - 1), 10)
    ELSE BigMul(BigPow10(k \div 2), BigPow10(k \div 2))

\* the integer value of the digits ds[lo..hi] in the given radix, for at
\* most seven digits
RECURSIVE IntOfDigits(_, _, _, _)
IntOfDigits(ds, lo, hi, radix) ==
    IF lo > hi THEN 0 ELSE radix * IntOfDigits(ds, lo, hi - 1, radix) + ds[hi]

\* the value of the digits ds[lo..hi] in radix 10 or 16
RECURSIVE BigOfDigits(_, _, _, _)
BigOfDigits(ds, lo, hi, radix) ==
    IF hi - lo < 7 THEN BigOfInt(IntOfDigits(ds, lo, hi, radix))
    ELSE BigAdd(BigMul(BigOfDigits(ds, lo, (lo + hi) \div 2, radix),
                       IF radix = 16 THEN BigShiftLeft(<<1>>, 4 * (hi - (lo + hi) \div 2))
                                     ELSE BigPow10(hi - (lo + hi) \div 2)),
                BigOfDigits(ds, (lo + hi) \div 2 + 1, hi, radix))

(***************************************************************************)
(* JS numbers: the IEEE 754 doubles                                        *)
(***************************************************************************)
\* A finite double is <<sign, m, e>>, the number sign * m * 2^e for a
\* natural number m: an integer has e = 0, any other double an odd m and
\* e < 0; 0 and -0 are both <<1, <<>>, 0>>.  Infinity and -Infinity are
\* <<1, 0>> and <<-1, 0>>, NaN is <<0>>.
NaN == <<0>>

Inf == <<1, 0>>

NegInf == <<-1, 0>>

Zero == <<1, <<>>, 0>>

IsNaN(x) == Len(x) = 1

IsFinite(x) == Len(x) = 3

Infinity(sign) == IF sign < 0 THEN NegInf ELSE Inf

\* bits of the significand, and the exponents of the largest and of the
\* smallest normal double
SignificandBits == 53

MaxExponent == 1023

MinExponent == -1022

\* the double sign * n * 2^x, which the caller knows to be one
Dyadic(sign, n, x) ==
    IF n = <<>> THEN Zero
    ELSE IF x >= 0 THEN <<sign, BigShiftLeft(n, x), 0>>
    ELSE <<sign, BigShiftRight(n, Min(BigTrailingZeros(n), 0 - x)),
           x + Min(BigTrailingZeros(n), 0 - x)>>

\* the integer n
Num(n) == Dyadic(IF n < 0 THEN -1 ELSE 1, BigOfInt(Abs(n)), 0)

IsInteger(x) == IsFinite(x) /\ x[3] = 0

\* sign * q * 2^t where q < 2^53 or q = 2^53: Infinity over the largest double
Rounded(sign, q, t) ==
    IF q = <<>> THEN Zero
    ELSE IF BigBitLen(q) - 1 + t > MaxExponent THEN Infinity(sign)
    ELSE Dyadic(sign, q, t)

\* q, or q + 1 when the part cut off is over half a unit of q, or is half a
\* unit and q is odd
RoundedUp(sign, q, t, half, rest) ==
    Rounded(sign,
            IF half /\ (rest \/ BigBit(q, 0) = 1) THEN BigAdd(q, <<1>>) ELSE q,
            t)

\* the exponent of the last place of a double in [2^e, 2^(e+1)), which is
\* the last place of the subnormal doubles when e is under MinExponent
LastPlace(e) == Max(e, MinExponent) - (SignificandBits - 1)

\* sign * n * 2^x rounded to t, the last place of its double
RoundAt(sign, n, x, t) ==
    RoundedUp(sign,
              IF x >= t THEN BigShiftLeft(n, x - t) ELSE BigShiftRight(n, t - x),
              t,
              x < t /\ BigBit(n, t - x - 1) = 1,
              x < t /\ ~BigLowZero(n, t - x - 1))

\* the double nearest to sign * n * 2^x, a tie going to the even significand
RoundDyadic(sign, n, x) ==
    IF n = <<>> THEN Zero
    ELSE RoundAt(sign, n, x, LastPlace(BigBitLen(n) - 1 + x))

\* sign * n / d rounded to t, the last place of its double: the division that
\* leaves the quotient in units of 2^t, and twice its remainder against the
\* divisor
DivideAt(sign, n, d, t) ==
    LET Divided(num, den) ==
            LET RoundedBy(qr) ==
                    RoundedUp(sign, qr[1], t,
                              BigCmp(BigShiftLeft(qr[2], 1), den) >= 0,
                              BigCmp(BigShiftLeft(qr[2], 1), den) > 0)
            IN  RoundedBy(DivBits(num, den, SignificandBits))
    IN  Divided(BigShiftLeft(n, Max(0 - t, 0)), BigShiftLeft(d, Max(t, 0)))

\* floor(log2(n / d)), which is g or g - 1 for g the difference of the lengths
\* in bits
QuotientExponent(n, d, g) ==
    IF BigCmp(BigShiftLeft(n, Max(0 - g, 0)), BigShiftLeft(d, Max(g, 0))) >= 0
      THEN g ELSE g - 1

\* the double nearest to sign * n / d, for natural numbers n and d > 0
RoundRatio(sign, n, d) ==
    IF n = <<>> THEN Zero
    ELSE IF d = <<1>> THEN RoundDyadic(sign, n, 0)
    ELSE DivideAt(sign, n, d,
                  LastPlace(QuotientExponent(n, d, BigBitLen(n) - BigBitLen(d))))

\* x + y: the sum rounded to a double (for finite x and y, their significands
\* a and b brought to the same exponent e)
Plus(x, y) ==
    IF IsNaN(x) \/ IsNaN(y) THEN NaN
    ELSE IF ~IsFinite(x) THEN (IF ~IsFinite(y) /\ y # x THEN NaN ELSE x)
    ELSE IF ~IsFinite(y) THEN y
    ELSE LET Aligned(a, b, e) ==
                 RoundDyadic(IF x[1] = y[1] \/ BigCmp(a, b) >= 0 THEN x[1] ELSE y[1],
                             IF x[1] = y[1] THEN BigAdd(a, b)
                             ELSE IF BigCmp(a, b) >= 0 THEN BigSub(a, b)
                             ELSE BigSub(b, a),
                             e)
         IN  Aligned(BigShiftLeft(x[2], x[3] - Min(x[3], y[3])),
                     BigShiftLeft(y[2], y[3] - Min(x[3], y[3])),
                     Min(x[3], y[3]))

\* -x
Negated(x) ==
    IF IsNaN(x) \/ x = Zero THEN x
    ELSE IF IsFinite(x) THEN <<0 - x[1], x[2], x[3]>>
    ELSE <<0 - x[1], 0>>

\* x - y: the difference rounded to a double
Minus(x, y) == Plus(x, Negated(y))

\* x * y: the product rounded to a double
Times(x, y) ==
    IF IsNaN(x) \/ IsNaN(y) THEN NaN
    ELSE IF ~IsFinite(x) \/ ~IsFinite(y)
      THEN (IF x = Zero \/ y = Zero THEN NaN ELSE Infinity(x[1] * y[1]))
    ELSE RoundDyadic(x[1] * y[1], BigMul(x[2], y[2]), x[3] + y[3])

\* a / b for integers a >= 0 and b > 0: the quotient rounded to a double
Quot(a, b) == RoundRatio(1, BigOfInt(a), BigOfInt(b))

\* x / 2
HalfOf(x) == IF ~IsFinite(x) THEN x ELSE RoundDyadic(x[1], x[2], x[3] - 1)

\* Math.round(x): the nearest integer, a tie going towards +Infinity; NaN,
\* Infinity and -Infinity are left as they are.  For x = m / 2^f it is
\* floor(m / 2^f + 1/2), and for x = -m / 2^f it is -ceiling(m / 2^f - 1/2).
MathRound(x) ==
    IF ~IsFinite(x) \/ x[3] = 0 THEN x
    ELSE LET Nearest(m, f, half) ==
                 IF x[1] < 0 /\ BigCmp(m, half) <= 0 THEN Zero
                 ELSE Dyadic(x[1],
                             BigShiftRight(
                                 IF x[1] > 0 THEN BigAdd(m, half)
                                 ELSE BigAdd(BigSub(m, half),
                                             BigSub(BigShiftLeft(<<1>>, f), <<1>>)),
                                 f),
                             0)
         IN  Nearest(x[2], 0 - x[3], BigShiftLeft(<<1>>, 0 - x[3] - 1))

\* JS truthiness of a number: NaN, 0 and -0 are falsy (Infinity is truthy).
TruthyNum(x) == ~IsNaN(x) /\ x # Zero

\* a || b on numbers
OrElseNum(a, b) == IF TruthyNum(a) THEN a ELSE b

(***************************************************************************)
(* JS strings and the parsers                                              *)
(***************************************************************************)
Undef == <<"undefined">>

DigitChars == <<"0", "1", "2", "3", "4", "5", "6", "7", "8", "9">>

IsDigit(c) == \E i \in 1..10 : DigitChars[i] = c

HexLower == <<"0", "1", "2", "3", "4", "5", "6", "7", "8", "9",
              "a", "b", "c", "d", "e", "f">>

HexUpper == <<"0", "1", "2", "3", "4", "5", "6", "7", "8", "9",
              "A", "B", "C", "D", "E", "F">>

IsHexDigit(c) == \E i \in 1..16 : HexLower[i] = c \/ HexUpper[i] = c

HexVal(c) == (CHOOSE i \in 1..16 : HexLower[i] = c \/ HexUpper[i] = c) - 1

\* The white space and line terminators that parseInt and parseFloat skip.  A
\* character without an escape of its own is written as its JS escape.
WhiteSpaceChars ==
    { " ", "\t", "\n", "\r", "\f", "\\v", "\\u00A0", "\\u1680", "\\u2000",
      "\\u2001", "\\u2002", "\\u2003", "\\u2004", "\\u2005", "\\u2006",
      "\\u2007", "\\u2008", "\\u2009", "\\u200A", "\\u2028", "\\u2029",
      "\\u202F", "\\u205F", "\\u3000", "\\uFEFF" }

InfinityText == <<"I", "n", "f", "i", "n", "i", "t", "y">>

\* a || b on strings: undefined and "" are falsy.
OrElseStr(a, b) == IF a = Undef \/ a = <<>> THEN b ELSE a

\* index of the first character at or after i that is not white space
SkipBlanks(s, i) ==
    CHOOSE j \in i..(Len(s) + 1) :
        /\ j = Len(s) + 1 \/ s[j] \notin WhiteSpaceChars
        /\ \A k \in i..(j - 1) : s[k] \in WhiteSpaceChars

\* whether t is the text of s from i on, or a prefix of it
StartsWith(s, i, t) ==
    /\ i + Len(t) - 1 <= Len(s)
    /\ \A n \in 1..Len(t) : s[i + n - 1] = t[n]

\* number of digits at the start of s[i..]
DigitRun(s, i) ==
    (CHOOSE j \in i..(Len(s) + 1) :
        /\ j = Len(s) + 1 \/ ~IsDigit(s[j])
        /\ \A k \in i..(j - 1) : IsDigit(s[k])) - i

\* number of hexadecimal digits at the start of s[i..]
HexRun(s, i) ==
    (CHOOSE j \in i..(Len(s) + 1) :
        /\ j = Len(s) + 1 \/ ~IsHexDigit(s[j])
        /\ \A k \in i..(j - 1) : IsHexDigit(s[k])) - i

\* the values of the k decimal or hexadecimal digits s[i..i+k-1]
DigitValues(s, i, k) == TupleOf([n \in 1..k |-> HexVal(s[i + n - 1])], k)

\* number of 0 digits at the start of ds
LeadingZeros(ds) ==
    (CHOOSE j \in 1..(Len(ds) + 1) :
        /\ j = Len(ds) + 1 \/ ds[j] # 0
        /\ \A k \in 1..(j - 1) : ds[k] = 0) - 1

\* the orders from which on every number is Infinity, and up to which every
\* number is 0, whatever its digits: 10^309 > 2^1024, 10^-324 < 2^-1075
OverflowOrder == 309

UnderflowOrder == -324

\* the k digits of the integer start at j: the double nearest to it, which
\* is Infinity for every integer of more than OverflowOrder digits
IntDigits(s, sign, j, k, radix) ==
    IF k = 0 THEN NaN
    ELSE LET Digits(ds) ==
                 LET From(first) ==
                         IF k - first >= OverflowOrder THEN Infinity(sign)
                         ELSE RoundDyadic(sign, BigOfDigits(ds, first, k, radix), 0)
                 IN  From(LeadingZeros(ds) + 1)
         IN  Digits(DigitValues(s, j, k))

\* the digits after the sign start at j
IntUnsigned(s, sign, j) ==
    LET hex == j + 1 <= Len(s) /\ s[j] = "0" /\ s[j + 1] \in {"x", "X"}
    IN  IntDigits(s, sign,
                  IF hex THEN j + 2 ELSE j,
                  IF hex THEN HexRun(s, j + 2) ELSE DigitRun(s, j),
                  IF hex THEN 16 ELSE 10)

\* after the white space: an optional sign
IntSigned(s, i) ==
    IntUnsigned(s,
                IF i <= Len(s) /\ s[i] = "-" THEN -1 ELSE 1,
                IF i <= Len(s) /\ s[i] \in {"+", "-"} THEN i + 1 ELSE i)

\* parseInt(s): white space, optional sign, then either 0x or 0X and the
\* longest run of hexadecimal digits, or the longest run of decimal digits;
\* NaN when the run is empty, else the double nearest to the integer.
ParseInt(s) == IntSigned(s, SkipBlanks(s, 1))

\* The double nearest to a decimal depends on the digits after its first
\* MaxDigits digits only by whether one of them is not 0: no double and no
\* number half way between two doubles has more than 767 digits.
MaxDigits == 800

\* A text has fewer than 2^29 characters (the string length limit of the
\* engine), so that with an exponent of 2^30 or more every decimal is over
\* 10^OverflowOrder, or under 10^UnderflowOrder, whatever its digits.
ExponentCap == 1073741824

\* The double nearest to the digits ds (not all 0) times 10^scale.  The
\* decimal is in [10^(order-1), 10^order) for order the number of its digits,
\* leading zeros not counted, plus scale.
DecimalOfOrder(sign, ds, scale, order) ==
    IF order > OverflowOrder THEN Infinity(sign)
    ELSE IF order <= UnderflowOrder THEN Zero
    ELSE RoundRatio(sign,
                    BigMul(BigOfDigits(ds, 1, Len(ds), 10), BigPow10(Max(scale, 0))),
                    BigPow10(Max(0 - scale, 0)))

\* The double nearest to the digits ds times 10^scale: the digits from the
\* first to the last that is not 0, the zeros after it counted in the scale;
\* of more than MaxDigits such digits, the first MaxDigits and a last digit 1
\* in the place of the others.
Decimal(sign, ds, scale) ==
    IF \A i \in 1..Len(ds) : ds[i] = 0 THEN Zero
    ELSE LET Between(first, last) ==
                 DecimalOfOrder(sign,
                     IF last - first >= MaxDigits
                       THEN SubSeq(ds, first, first + MaxDigits - 1) \o <<1>>
                       ELSE SubSeq(ds, first, last),
                     scale + Len(ds)
                       - (IF last - first >= MaxDigits THEN first + MaxDigits ELSE last),
                     Len(ds) - first + 1 + scale)
         IN  Between(LeadingZeros(ds) + 1,
                     CHOOSE j \in 1..Len(ds) :
                         ds[j] # 0 /\ \A k \in (j + 1)..Len(ds) : ds[k] = 0)

\* the value of the exponent digits es, or ExponentCap when it is over it
ExponentValue(es) ==
    IF Len(es) - LeadingZeros(es) > 10 THEN ExponentCap
    ELSE LET Capped(e) ==
                 IF BigCmp(e, BigOfInt(ExponentCap)) >= 0 THEN ExponentCap
                 ELSE Limb(e, 1) + Base * Limb(e, 2)
         IN  Capped(BigOfDigits(es, LeadingZeros(es) + 1, Len(es), 10))

\* the digits of the exponent start at q; without a digit there is no exponent
FloatExponentDigits(s, q, esign) ==
    IF DigitRun(s, q) = 0 THEN 0
    ELSE esign * ExponentValue(DigitValues(s, q, DigitRun(s, q)))

\* the mantissa ends before p: an exponent is e or E, an optional sign and
\* digits
FloatExponent(s, p) ==
    IF p <= Len(s) /\ s[p] \in {"e", "E"}
      THEN FloatExponentDigits(s,
               IF p + 1 <= Len(s) /\ s[p + 1] \in {"+", "-"} THEN p + 2 ELSE p + 1,
               IF p + 1 <= Len(s) /\ s[p + 1] = "-" THEN -1 ELSE 1)
      ELSE 0

\* k digits from j, then (dot) a "." and f digits; NaN without a digit
FloatMantissa(s, sign, j, k, dot, f) ==
    IF k + f = 0 THEN NaN
    ELSE Decimal(sign,
                 DigitValues(s, j, k) \o DigitValues(s, j + k + 1, f),
                 FloatExponent(s, IF dot THEN j + k + 1 + f ELSE j + k) - f)

\* k digits from j, then an optional "." and digits
FloatFraction(s, sign, j, k) ==
    FloatMantissa(s, sign, j, k,
                  j + k <= Len(s) /\ s[j + k] = ".",
                  IF j + k <= Len(s) /\ s[j + k] = "."
                    THEN DigitRun(s, j + k + 1) ELSE 0)

\* after the sign: the text Infinity, or a decimal
FloatUnsigned(s, sign, j) ==
    IF StartsWith(s, j, InfinityText) THEN Infinity(sign)
    ELSE FloatFraction(s, sign, j, DigitRun(s, j))

\* after the white space: an optional sign
FloatSigned(s, i) ==
    FloatUnsigned(s,
                  IF i <= Len(s) /\ s[i] = "-" THEN -1 ELSE 1,
                  IF i <= Len(s) /\ s[i] \in {"+", "-"} THEN i + 1 ELSE i)

\* parseFloat(s): white space, optional sign, then either the text Infinity or
\* digits, optional "." and digits, and an optional exponent (e or E, optional
\* sign, digits; read only when it holds a digit); the longest such prefix;
\* NaN when the digits are missing, else the double nearest to the decimal.
ParseFloat(s) == FloatSigned(s, SkipBlanks(s, 1))

\* the literal 0.4: the double nearest to 4 / 10
PointFour == RoundRatio(1, <<4>>, <<10>>)

\* x * 0.4
Times04(x) == Times(x, PointFour)

\* index of the last occurrence of c in s, 0 when there is none
LastIndexOf(s, c) ==
    IF \A i \in 1..Len(s) : s[i] # c THEN 0
    ELSE CHOOSE i \in 1..Len(s) : s[i] = c /\ \A k \in (i + 1)..Len(s) : s[k] # c

\* s without the "/" at its end
StripTrailingSeparators(s) ==
    IF \A i \in 1..Len(s) : s[i] = "/" THEN <<>>
    ELSE SubSeq(s, 1, CHOOSE i \in 1..Len(s) :
                        s[i] # "/" /\ \A k \in (i + 1)..Len(s) : s[k] = "/")

\* path.parse(filename).name: the last component of the path, separators at
\* the end of the path ignored, without its extension (the text from its last
\* "." on); the component itself when that "." starts it or when it is "..".
\* The start of the component is looked for after the root "/" only and is
\* left at the root when no separator is found, so that the component ".."
\* right after the root is not taken for "..".
PathParseName(filename) ==
    LET path    == StripTrailingSeparators(filename)
        rooted  == path # <<>> /\ path[1] = "/"
        scanned == IF rooted THEN Tail(path) ELSE path
        sep     == LastIndexOf(scanned, "/")
        base    == SubSeq(scanned, sep + 1, Len(scanned))
        dot     == LastIndexOf(base, ".")
    IN  IF dot <= 1 \/ (base = <<".", ".">> /\ ~(rooted /\ sep = 0)) THEN base
        ELSE SubSeq(base, 1, dot - 1)

(***************************************************************************)
(* Program constants                                                       *)
(***************************************************************************)
FullWidth == 2000
PreviewWidth == 800
DefaultLogoY == 175
DefaultLogoWidth == 450
FullQuality == 95
PreviewQuality == 70
DefaultColor == <<"#", "F", "F", "F", "F", "F", "F">>
MockupFilename == <<"mockup", ".", "jpg">>

(***************************************************************************)
(* Bounds and input sets                                                   *)
(***************************************************************************)
MaxClock == 2

Req == {"r1", "r2"}
Endpoints == {"generate", "preview", "finalize"}
Which == {"mockup", "logo"}

NoFile == [present |-> FALSE]
File(name, ok, dims) ==
    [present |-> TRUE, originalname |-> name, decodable |-> ok, dims |-> dims]

Body(c, lx, ly, lw) == [color |-> c, logoX |-> lx, logoY |-> ly, logoWidth |-> lw]

\* the requests of the concurrency specification
Files ==
    { NoFile,
      File(<<"logo", ".", "v2", ".", "png">>, FALSE, <<0, 0>>),
      File(<<"logo", ".", "v2", ".", "png">>, TRUE, <<100, 50>>),
      File(<<"mockup", ".", "jpg">>, TRUE, <<100, 50>>) }
Bodies == { Body(<<"r", "e", "d">>, <<"0">>, Undef, Undef) }
DefaultBackground == <<1000, 1000>>

\* the requests of the layout specification
LayoutFiles ==
    { File(<<"/", ".", ".">>, TRUE, <<100, 50>>),
      File(<<"dir", "/", ".", ".", "/">>, TRUE, <<3, 7>>) }
LogoXInputs ==
    { Undef, <<"0">>, InfinityText, <<"-", "1", "e", "-", "1", "4">>,
      <<"\t", "2", ".", "5", "p">> }
LogoYInputs ==
    { Undef, <<"0">>, <<"3", "e", "1">>, <<"-", ".", "5">>,
      <<"6", ".", "2", "4", "9", "9", "9", "9", "9", "9", "9", "9", "9", "9", "9",
        "9", "9">> }
LogoWidthInputs ==
    { Undef, <<"0">>, <<"0", "X", "1">>, <<"\n", "1", "2", ".", "9">>, <<"-", "5">>,
      <<"0", "x", "2", "5", "8">> }
ColorInputs == { Undef, <<>>, <<"r", "e", "d">> }
LayoutBodies ==
    { Body(c, lx, ly, lw) : c \in {Undef}, lx \in LogoXInputs,
                            ly \in LogoYInputs, lw \in LogoWidthInputs }
      \cup { Body(c, Undef, Undef, Undef) : c \in ColorInputs }
BackgroundDims == { <<1600, 1201>>, <<96, 195>>, <<5000, 1>> }

(***************************************************************************)
(* Request parameters (the same lines in the three handlers)               *)
(***************************************************************************)
\* color, logoX, logoY, logoWidth as the handler reads them from req.body
Coerce(body) ==
    [ color     |-> OrElseStr(body.color, DefaultColor),
      logoX     |-> OrElseNum(ParseFloat(body.logoX), Num(0)),
      logoY     |-> OrElseNum(ParseFloat(body.logoY), Num(DefaultLogoY)),
      logoWidth |-> OrElseNum(ParseInt(body.logoWidth), Num(DefaultLogoWidth)) ]

\* config of /generate and of /finalize-for-shopify
GenerateConfig(body) ==
    LET Config(p) ==
            [ finalImageWidth |-> FullWidth,
              logoWidth       |-> p.logoWidth,
              logoXOffset     |-> p.logoX,
              logoYOffset     |-> p.logoY ]
    IN  Config(Coerce(body))

FinalizeConfig(body) ==
    LET Config(p) ==
            [ finalImageWidth |-> FullWidth,
              logoWidth       |-> p.logoWidth,
              logoXOffset     |-> p.logoX,
              logoYOffset     |-> p.logoY ]
    IN  Config(Coerce(body))

\* a /preview that scales the logo width but not the offsets
PreviewConfigRawOffsets(body) ==
    LET Config(p) ==
            [ finalImageWidth |-> PreviewWidth,
              logoWidth       |-> MathRound(Times04(p.logoWidth)),
              logoXOffset     |-> p.logoX,
              logoYOffset     |-> p.logoY ]
    IN  Config(Coerce(body))

\* config of /preview
PreviewConfig(body) ==
    LET Config(p) ==
            [ finalImageWidth |-> PreviewWidth,
              logoWidth       |-> MathRound(Times04(p.logoWidth)),
              logoXOffset     |-> MathRound(Times04(p.logoX)),
              logoYOffset     |-> MathRound(Times04(p.logoY)) ]
    IN  Config(Coerce(body))

ConfigOf(endpoint, body) ==
    CASE endpoint = "generate" -> GenerateConfig(body)
      [] endpoint = "preview"  -> PreviewConfig(body)
      [] endpoint = "finalize" -> FinalizeConfig(body)

QualityOf(endpoint) ==
    IF endpoint = "preview" THEN PreviewQuality ELSE FullQuality

(***************************************************************************)
(* Layout                                                                  *)
(***************************************************************************)
\* finalImageHeight = Math.round(baseMetadata.height * (finalImageWidth / baseMetadata.width))
\* The quotient and the product are each rounded to a double.
FinalImageHeight(base, finalImageWidth) ==
    MathRound(Times(Num(base[2]), Quot(finalImageWidth, base[1])))

\* the largest width or height of an image of the raster library
MaxCoord == 10000000

\* sharp(logoBuffer).resize({ width }): the given width, the height scaled by
\* the same factor and rounded, and 1 at least
ResizedLogo(dims, width) ==
    LET AtLeastOne(height) == IF height = Zero THEN Num(1) ELSE height
    IN  <<width,
          AtLeastOne(MathRound(RoundRatio(1, BigMul(BigOfInt(dims[2]), width[2]),
                                          BigOfInt(dims[1]))))>>

\* resize({ width }) and resize(width, height) throw, as they are called,
\* unless the width and the height are positive integers
ValidResizeWidth(w) == IsInteger(w) /\ w[1] > 0 /\ w # Zero

\* composite([{ top, left }]) throws, as it is called, unless top and left are
\* integers
ValidOffsets(top, left) == IsInteger(top) /\ IsInteger(left)

\* Math.round((finalImageHeight / 2) - (logoMetadata.height / 2) + config.logoYOffset)
LogoTop(finalImageHeight, logoHeight, logoYOffset) ==
    MathRound(Plus(Minus(HalfOf(finalImageHeight), HalfOf(logoHeight)), logoYOffset))

\* Math.round((config.finalImageWidth / 2) - (logoMetadata.width / 2) + config.logoXOffset)
LogoLeft(finalImageWidth, logoWidth, logoXOffset) ==
    MathRound(Plus(Minus(HalfOf(Num(finalImageWidth)), HalfOf(logoWidth)), logoXOffset))

(***************************************************************************)
(* The upload helper                                                       *)
(***************************************************************************)
\* `${Date.now()}-${path.parse(filename).name}`
PublicId(clock, filename) == <<ToString(clock), "-">> \o PathParseName(filename)

\* result.secure_url: the store's address of the asset saved in the folder
\* "tote-bag-designs" under public_id
SecureUrl(publicId) == <<"https://", "tote-bag-designs", "/">> \o publicId

NoUrl == <<>>

(***************************************************************************)
(* The compositing pipeline: the awaited raster operations, in order       *)
(***************************************************************************)
Pipeline ==
    << "bgMetadata", "bgResize", "solidCanvas", "bodyMask", "coloredBody",
       "handlesMask", "coloredHandles", "fullBag", "logoResize",
       "logoMetadata", "shadows", "highlights", "encode" >>

LastStep == Len(Pipeline)

StepIndex(name) == CHOOSE i \in 1..LastStep : Pipeline[i] = name

\* the operations that decode the request's logo file
LogoSteps == {"logoResize", "logoMetadata"}

(***************************************************************************)
(* State                                                                   *)
(***************************************************************************)
VARIABLES
    now,          \* Date.now()
    background,   \* native dimensions of assets/background.png
    pc,           \* per request: "idle", "raster", "uploading", "done"
    req,          \* per request: endpoint, req.file, req.body
    step,         \* per request: index in Pipeline of the awaited operation
    sharpCalls,   \* per request: raster operations started
    failedStep,   \* per request: index of the operation that threw, else 0
    config,       \* per request: the handler's config object
    canvas,       \* per request: <<finalImageWidth, finalImageHeight>>
    placement,    \* per request: <<logo width, logo height, logoTop, logoLeft>>
    uploads,      \* per request and upload: status and public_id
    response,     \* per request: what was sent with res
    store,        \* the remote store: public_id -> the upload last saved there
    textureCache, \* the Map of generateFabricTexture
    tex           \* per caller of generateFabricTexture: position, arguments, result

reqVars == <<now, background, pc, req, step, sharpCalls, failedStep, config,
             canvas, placement, uploads, response, store>>
texVars == <<textureCache, tex>>
vars == <<reqVars, texVars>>

NoReq == [endpoint |-> "none"]
NoConfig == [finalImageWidth |-> 0]
NoUpload == [status |-> "none", id |-> <<>>]
NoResponse ==
    [status |-> 0, kind |-> "none", mockupUrl |-> NoUrl, originalLogoUrl |-> NoUrl,
     config |-> <<>>, image |-> <<>>]

\* res.status(400).json({ details }) and res.status(500).json({ details })
ErrorResponse(status) ==
    [status |-> status, kind |-> "details", mockupUrl |-> NoUrl,
     originalLogoUrl |-> NoUrl, config |-> <<>>, image |-> <<>>]

\* res.setHeader('Content-Type', 'image/jpeg'); res.send(buffer)
ImageResponse(dims, quality) ==
    [status |-> 200, kind |-> "jpeg", mockupUrl |-> NoUrl,
     originalLogoUrl |-> NoUrl, config |-> <<>>, image |-> <<dims[1], dims[2], quality>>]

\* res.json({ mockupUrl, originalLogoUrl, config: { color, logoX, logoY, logoWidth } })
PublishResponse(mockupUrl, originalLogoUrl, body) ==
    LET Json(p) ==
            [status |-> 200, kind |-> "json", mockupUrl |-> mockupUrl,
             originalLogoUrl |-> originalLogoUrl,
             config |-> <<p.color, p.logoX, p.logoY, p.logoWidth>>, image |-> <<>>]
    IN  Json(Coerce(body))

TexIdle == [pc |-> "idle"]

InitRequests ==
    /\ now = 0
    /\ pc = [r \in Req |-> "idle"]
    /\ req = [r \in Req |-> NoReq]
    /\ step = [r \in Req |-> 0]
    /\ sharpCalls = [r \in Req |-> 0]
    /\ failedStep = [r \in Req |-> 0]
    /\ config = [r \in Req |-> NoConfig]
    /\ canvas = [r \in Req |-> <<>>]
    /\ placement = [r \in Req |-> <<>>]
    /\ uploads = [r \in Req |-> [w \in Which |-> NoUpload]]
    /\ response = [r \in Req |-> NoResponse]
    /\ store = {}

(***************************************************************************)
(* generateFabricTexture                                                   *)
(***************************************************************************)
Callers == {"p1", "p2"}

\* the color argument: a string, or an object { r, g, b, alpha }
StringColor(text) == [kind |-> "string", text |-> text]
ObjectColor(rgb) == [kind |-> "object", rgb |-> rgb]

\* the textureType argument left out
NoArg == "(omitted)"

TextureWidths == {20}
TextureHeights == {20}
TextureColors == { StringColor("red"), ObjectColor(<<255, 0, 0>>),
                   ObjectColor(<<0, 0, 255>>) }
TextureTypeArgs == {NoArg, "cotton", "linen"}

TextureArgs ==
    [width : TextureWidths, height : TextureHeights, color : TextureColors,
     textureType : TextureTypeArgs]

\* the default parameter textureType = 'canvas'
TextureTypeOf(args) ==
    IF args.textureType = NoArg THEN "canvas" ELSE args.textureType

\* `${color}` inside a template literal
ColorText(color) ==
    IF color.kind = "string" THEN color.text ELSE "[object Object]"

\* `${width}x${height}-${color}-${textureType}`
CacheKey(args) ==
    ToString(args.width) \o "x" \o ToString(args.height) \o "-"
        \o ColorText(args.color) \o "-" \o TextureTypeOf(args)

\* the PNG bytes of the texture of the given size, color and type
TextureBytes(args) ==
    <<"png", args.width, args.height, args.color, TextureTypeOf(args)>>

\* the types with a generation branch
GeneratedTypes == {"canvas", "cotton"}

\* the value of textureBuffer when the cache is written: the generated bytes,
\* or undefined when no branch assigned it
TextureBuffer(args) ==
    IF TextureTypeOf(args) \in GeneratedTypes THEN TextureBytes(args) ELSE Undef

\* textureCache.set(cacheKey, textureBuffer)
CacheSet(cache, key, value) ==
    [k \in DOMAIN cache \cup {key} |-> IF k = key THEN value ELSE cache[k]]

Thrown == <<"thrown">>

\* A caller calls the function; it runs to its first await or to its return.
TexCall(p, args) ==
    /\ tex[p].pc = "idle"
    /\ IF CacheKey(args) \in DOMAIN textureCache
         THEN /\ tex' = [tex EXCEPT ![p] =
                    [pc |-> "returned", args |-> args, hit |-> TRUE,
                     result |-> textureCache[CacheKey(args)]]]
              /\ UNCHANGED textureCache
         ELSE IF TextureTypeOf(args) \in GeneratedTypes
         THEN /\ tex' = [tex EXCEPT ![p] =
                    [pc |-> "pattern", args |-> args, hit |-> FALSE,
                     result |-> <<>>]]
              /\ UNCHANGED textureCache
         ELSE /\ textureCache' =
                    CacheSet(textureCache, CacheKey(args), TextureBuffer(args))
              /\ tex' = [tex EXCEPT ![p] =
                    [pc |-> "returned", args |-> args, hit |-> FALSE,
                     result |-> TextureBuffer(args)]]

\* the tile (weavePattern or noise) is ready; the texture is being composed
TexPattern(p) ==
    /\ tex[p].pc = "pattern"
    /\ tex' = [tex EXCEPT ![p].pc = "compose"]
    /\ UNCHANGED textureCache

\* the texture is ready: it is stored and returned
TexStore(p) ==
    /\ tex[p].pc = "compose"
    /\ textureCache' =
         CacheSet(textureCache, CacheKey(tex[p].args), TextureBuffer(tex[p].args))
    /\ tex' = [tex EXCEPT ![p].pc = "returned",
                          ![p].result = TextureBuffer(tex[p].args)]

\* a raster operation of the generation throws: the call rejects
TexThrow(p) ==
    /\ tex[p].pc \in {"pattern", "compose"}
    /\ tex' = [tex EXCEPT ![p].pc = "returned", ![p].result = Thrown]
    /\ UNCHANGED textureCache

\* the caller is done with the result
TexDone(p) ==
    /\ tex[p].pc = "returned"
    /\ tex' = [tex EXCEPT ![p] = TexIdle]
    /\ UNCHANGED textureCache

(***************************************************************************)
(* The handlers                                                            *)
(***************************************************************************)
\* a handler without the check of req.file
ReceiveUnchecked(r, endpoint, file, body) ==
    /\ pc[r] = "idle"
    /\ req' = [req EXCEPT ![r] = [endpoint |-> endpoint, file |-> file, body |-> body]]
    /\ config' = [config EXCEPT ![r] = ConfigOf(endpoint, body)]
    /\ step' = [step EXCEPT ![r] = 1]
    /\ sharpCalls' = [sharpCalls EXCEPT ![r] = 1]
    /\ pc' = [pc EXCEPT ![r] = "raster"]
    /\ UNCHANGED <<now, background, failedStep, canvas, placement, uploads,
                   response, store>>

\* A request arrives and its handler runs to its first await: the 400 for a
\* missing file, else the parameters, the config and the first raster call.
Receive(r, endpoint, file, body) ==
    /\ pc[r] = "idle"
    /\ req' = [req EXCEPT ![r] = [endpoint |-> endpoint, file |-> file, body |-> body]]
    /\ IF ~file.present
         THEN /\ response' = [response EXCEPT ![r] = ErrorResponse(400)]
              /\ pc' = [pc EXCEPT ![r] = "done"]
              /\ UNCHANGED <<config, step, sharpCalls>>
         ELSE /\ config' = [config EXCEPT ![r] = ConfigOf(endpoint, body)]
              /\ step' = [step EXCEPT ![r] = 1]
              /\ sharpCalls' = [sharpCalls EXCEPT ![r] = 1]
              /\ pc' = [pc EXCEPT ![r] = "raster"]
              /\ UNCHANGED response
    /\ UNCHANGED <<now, background, failedStep, canvas, placement, uploads, store>>

\* whether the awaited raster operation of r can succeed
\* (a resize to a width over the largest one fails when it is awaited)
CanSucceed(r) ==
    /\ Pipeline[step[r]] \in LogoSteps => req[r].file.decodable
    /\ Pipeline[step[r]] = "logoResize" =>
          BigCmp(config[r].logoWidth[2], BigOfInt(MaxCoord)) <= 0

\* Whether the call that the handler makes when its awaited operation has
\* resolved throws as it is made: resize(finalImageWidth, finalImageHeight)
\* after the metadata of the background, resize({ width }) after the colored
\* bag, composite([.. { top, left } ..]) after the highlights layer.
NextCallThrows(r) ==
    \/ /\ Pipeline[step[r]] = "bgMetadata"
       /\ ~ValidResizeWidth(canvas'[r][2])
    \/ /\ Pipeline[step[r]] = "fullBag"
       /\ ~ValidResizeWidth(config[r].logoWidth)
    \/ /\ Pipeline[step[r]] = "highlights"
       /\ ~ValidOffsets(placement[r][3], placement[r][4])

\* The awaited raster operation (not the last) succeeds; the handler runs on
\* to the next one, or into the catch block (500) when the call of the next
\* one throws.
RasterOk(r) ==
    /\ pc[r] = "raster"
    /\ step[r] < LastStep
    /\ CanSucceed(r)
    /\ canvas' =
         IF Pipeline[step[r]] = "bgMetadata"
           THEN [canvas EXCEPT ![r] =
                   <<config[r].finalImageWidth,
                     FinalImageHeight(background, config[r].finalImageWidth)>>]
           ELSE canvas
    /\ placement' =
         IF Pipeline[step[r]] = "logoMetadata"
           THEN LET Placement(logo) ==
                        << logo[1], logo[2],
                           LogoTop(canvas[r][2], logo[2], config[r].logoYOffset),
                           LogoLeft(config[r].finalImageWidth, logo[1],
                                    config[r].logoXOffset) >>
                IN  [placement EXCEPT ![r] =
                       Placement(ResizedLogo(req[r].file.dims, config[r].logoWidth))]
           ELSE placement
    /\ IF NextCallThrows(r)
         THEN /\ failedStep' = [failedStep EXCEPT ![r] = step[r] + 1]
              /\ response' = [response EXCEPT ![r] = ErrorResponse(500)]
              /\ pc' = [pc EXCEPT ![r] = "done"]
              /\ UNCHANGED <<step, sharpCalls>>
         ELSE /\ step' = [step EXCEPT ![r] = @ + 1]
              /\ sharpCalls' = [sharpCalls EXCEPT ![r] = @ + 1]
              /\ UNCHANGED <<failedStep, response, pc>>
    /\ UNCHANGED <<now, background, req, config, uploads, store>>

\* The awaited raster operation throws: the catch block answers 500.
RasterFail(r) ==
    /\ pc[r] = "raster"
    /\ failedStep' = [failedStep EXCEPT ![r] = step[r]]
    /\ response' = [response EXCEPT ![r] = ErrorResponse(500)]
    /\ pc' = [pc EXCEPT ![r] = "done"]
    /\ UNCHANGED <<now, background, req, step, sharpCalls, config, canvas,
                   placement, uploads, store>>

\* /generate and /preview: the JPEG is encoded and sent.
SendImage(r) ==
    /\ pc[r] = "raster"
    /\ step[r] = LastStep
    /\ req[r].endpoint \in {"generate", "preview"}
    /\ response' = [response EXCEPT ![r] =
                      ImageResponse(canvas[r], QualityOf(req[r].endpoint))]
    /\ pc' = [pc EXCEPT ![r] = "done"]
    /\ UNCHANGED <<now, background, req, step, sharpCalls, failedStep, config,
                   canvas, placement, uploads, store>>

\* uploadToCloudinary(buffer, filename): the upload starts under the public_id
\* made from the clock reading of the call.
StartedUpload(clock, filename) ==
    [status |-> "inflight", id |-> PublicId(clock, filename)]

\* a handler that starts the uploads without waiting for the JPEG
StartUploadsEarly(r) ==
    /\ pc[r] = "raster"
    /\ req[r].endpoint = "finalize"
    /\ \E dt \in {0, 1} :
         /\ now + dt <= MaxClock
         /\ now' = now + dt
         /\ uploads' = [uploads EXCEPT ![r] =
                          [mockup |-> StartedUpload(now, MockupFilename),
                           logo   |-> StartedUpload(now + dt,
                                                    req[r].file.originalname)]]
    /\ pc' = [pc EXCEPT ![r] = "uploading"]
    /\ UNCHANGED <<background, req, step, sharpCalls, failedStep, config,
                   canvas, placement, response, store>>

\* /finalize-for-shopify: the JPEG is encoded and both uploads are started, one
\* call after the other; the clock may advance between the two calls.
StartUploads(r) ==
    /\ pc[r] = "raster"
    /\ step[r] = LastStep
    /\ req[r].endpoint = "finalize"
    /\ \E dt \in {0, 1} :
         /\ now + dt <= MaxClock
         /\ now' = now + dt
         /\ uploads' = [uploads EXCEPT ![r] =
                          [mockup |-> StartedUpload(now, MockupFilename),
                           logo   |-> StartedUpload(now + dt,
                                                    req[r].file.originalname)]]
    /\ pc' = [pc EXCEPT ![r] = "uploading"]
    /\ UNCHANGED <<background, req, step, sharpCalls, failedStep, config,
                   canvas, placement, response, store>>

Other(w) == IF w = "mockup" THEN "logo" ELSE "mockup"

\* the store saves an upload under its public_id, replacing what was there
Save(st, id, r, w) ==
    {e \in st : e.id # id} \cup {[id |-> id, by |-> <<r, w>>]}

\* a join that is fulfilled by the first upload to succeed
JoinFulfilledByFirst(r, w) == TRUE

\* Promise.all of the two uploads is settled once by: the first rejection, or
\* the second fulfilment. The handler is waiting for it while pc = "uploading".
\* Upload w of r has just succeeded: Promise.all is fulfilled if the other
\* upload has succeeded too.
JoinFulfilled(r, w) == uploads[r][Other(w)].status = "ok"

\* An upload's callback reports success: its promise resolves with the URL; if
\* the other upload has resolved too the handler sends the two URLs.
UploadResolve(r, w) ==
    /\ uploads[r][w].status = "inflight"
    /\ uploads' = [uploads EXCEPT ![r][w].status = "ok"]
    /\ store' = Save(store, uploads[r][w].id, r, w)
    /\ IF pc[r] = "uploading" /\ JoinFulfilled(r, w)
         THEN /\ response' = [response EXCEPT ![r] =
                    PublishResponse(SecureUrl(uploads[r]["mockup"].id),
                                    SecureUrl(uploads[r]["logo"].id),
                                    req[r].body)]
              /\ pc' = [pc EXCEPT ![r] = "done"]
         ELSE UNCHANGED <<response, pc>>
    /\ UNCHANGED <<now, background, req, step, sharpCalls, failedStep, config,
                   canvas, placement>>

\* a handler that answers with what it has when an upload fails
UploadRejectPartial(r, w) ==
    /\ uploads[r][w].status = "inflight"
    /\ uploads' = [uploads EXCEPT ![r][w].status = "failed"]
    /\ IF pc[r] = "uploading"
         THEN /\ response' = [response EXCEPT ![r] =
                    PublishResponse(
                        IF uploads'[r]["mockup"].status = "ok"
                          THEN SecureUrl(uploads[r]["mockup"].id) ELSE NoUrl,
                        IF uploads'[r]["logo"].status = "ok"
                          THEN SecureUrl(uploads[r]["logo"].id) ELSE NoUrl,
                        req[r].body)]
              /\ pc' = [pc EXCEPT ![r] = "done"]
         ELSE UNCHANGED <<response, pc>>
    /\ UNCHANGED <<now, background, req, step, sharpCalls, failedStep, config,
                   canvas, placement, store>>

\* An upload's callback reports an error: its promise rejects; if the handler
\* is still waiting, Promise.all rejects and the catch block answers 500.
UploadReject(r, w) ==
    /\ uploads[r][w].status = "inflight"
    /\ uploads' = [uploads EXCEPT ![r][w].status = "failed"]
    /\ IF pc[r] = "uploading"
         THEN /\ response' = [response EXCEPT ![r] = ErrorResponse(500)]
              /\ pc' = [pc EXCEPT ![r] = "done"]
         ELSE UNCHANGED <<response, pc>>
    /\ UNCHANGED <<now, background, req, step, sharpCalls, failedStep, config,
                   canvas, placement, store>>

\* the clock advances
Tick ==
    /\ now < MaxClock
    /\ now' = now + 1
    /\ UNCHANGED <<background, pc, req, step, sharpCalls, failedStep, config,
                   canvas, placement, uploads, response, store>>

(***************************************************************************)
(* Specification of the server: two concurrent requests                    *)
(***************************************************************************)
Init ==
    /\ InitRequests
    /\ background = DefaultBackground
    /\ textureCache = <<>>
    /\ tex = [p \in Callers |-> TexIdle]

Arrive ==
    \E r \in Req, e \in Endpoints, f \in Files, b \in Bodies : Receive(r, e, f, b)

Next ==
    \/ Arrive /\ UNCHANGED texVars
    \/ (\E r \in Req : RasterOk(r)) /\ UNCHANGED texVars
    \/ (\E r \in Req : RasterFail(r)) /\ UNCHANGED texVars
    \/ (\E r \in Req : SendImage(r)) /\ UNCHANGED texVars
    \/ (\E r \in Req : StartUploads(r)) /\ UNCHANGED texVars
    \/ (\E r \in Req, w \in Which : UploadResolve(r, w)) /\ UNCHANGED texVars
    \/ (\E r \in Req, w \in Which : UploadReject(r, w)) /\ UNCHANGED texVars
    \/ Tick /\ UNCHANGED texVars

Spec == Init /\ [][Next]_vars

(***************************************************************************)
(* Properties                                                              *)
(***************************************************************************)
Started(r, w) == uploads[r][w].status # "none"
InFlight(r, w) == uploads[r][w].status = "inflight"
Responded(r) == response[r].status # 0
IsFinalize(r) == pc[r] # "idle" /\ req[r].endpoint = "finalize"

\* C1 (as claimed): in /finalize-for-shopify no response, success or error, is
\* sent while one of the two uploads is still in flight.
C1_NoResponseWhileUploadInFlight ==
    \A r \in Req : Responded(r) => \A w \in Which : ~InFlight(r, w)

\* C1 (amended): the two uploads are started together; a success response is
\* sent only after both uploads have succeeded; a response sent while an upload
\* is still in flight is the error response, and the other upload has failed.
C1_JoinOnSuccessFailFast ==
    \A r \in Req :
        /\ Started(r, "mockup") <=> Started(r, "logo")
        /\ pc[r] = "uploading" => ~Responded(r)
        /\ (IsFinalize(r) /\ response[r].status = 200)
              => \A w \in Which : uploads[r][w].status = "ok"
        /\ \A w \in Which :
              (Responded(r) /\ InFlight(r, w))
                 => /\ response[r].status = 500
                    /\ uploads[r][Other(w)].status = "failed"

\* C1 witness: one request got its success response after both uploads
\* succeeded; another got the error response when its mockup upload failed,
\* its logo upload still in flight.
C1_Witness ==
    \E r, q \in Req :
        /\ IsFinalize(r) /\ response[r].status = 200
        /\ \A w \in Which : uploads[r][w].status = "ok"
        /\ response[q].status = 500
        /\ uploads[q]["mockup"].status = "failed"
        /\ InFlight(q, "logo")

\* C2: /finalize-for-shopify answers with URLs only if both uploads succeeded,
\* and then with both; once an upload has failed the response is the 500
\* without any URL.
C2_NoPartialResult ==
    \A r \in Req :
        /\ (response[r].mockupUrl # NoUrl \/ response[r].originalLogoUrl # NoUrl)
              => /\ \A w \in Which : uploads[r][w].status = "ok"
                 /\ response[r].mockupUrl # NoUrl
                 /\ response[r].originalLogoUrl # NoUrl
                 /\ response[r].status = 200
        /\ (\E w \in Which : uploads[r][w].status = "failed")
              => /\ response[r].status = 500
                 /\ response[r].mockupUrl = NoUrl
                 /\ response[r].originalLogoUrl = NoUrl

\* C2 witness: one upload succeeded, the other failed, the 500 was sent.
C2_Witness ==
    \E r \in Req, w \in Which :
        /\ uploads[r][w].status = "ok"
        /\ uploads[r][Other(w)].status = "failed"
        /\ response[r].status = 500

\* C3: an upload is started only by /finalize-for-shopify and only after the
\* final JPEG was produced; when a compositing step failed no upload was
\* started and the request ended with the 500.
C3_NoUploadWithoutImage ==
    \A r \in Req :
        /\ (\E w \in Which : Started(r, w))
              => /\ req[r].endpoint = "finalize"
                 /\ step[r] = LastStep
                 /\ failedStep[r] = 0
                 /\ placement[r] # <<>>
        /\ failedStep[r] # 0
              => /\ \A w \in Which : ~Started(r, w)
                 /\ pc[r] = "done"
                 /\ response[r].status = 500

\* C3 witness: a /finalize-for-shopify request whose last compositing step
\* (the JPEG encoding) failed.
C3_Witness ==
    \E r \in Req :
        /\ IsFinalize(r)
        /\ failedStep[r] = LastStep
        /\ response[r].status = 500

\* C4: in each endpoint a request without a logo file is answered 400, with no
\* raster operation and no upload started, and is over.
C4_MissingFileIsClientError ==
    \A r \in Req :
        (pc[r] # "idle" /\ ~req[r].file.present)
           => /\ response[r].status = 400
              /\ sharpCalls[r] = 0
              /\ \A w \in Which : ~Started(r, w)
              /\ pc[r] = "done"

\* C4 witness: two requests without a file at two different endpoints, one of
\* them /finalize-for-shopify, both answered 400.
C4_Witness ==
    \E r, q \in Req :
        /\ pc[r] = "done" /\ pc[q] = "done"
        /\ ~req[r].file.present /\ ~req[q].file.present
        /\ req[r].endpoint = "finalize" /\ req[q].endpoint = "preview"
        /\ response[r].status = 400 /\ response[q].status = 400

\* the filename given to uploadToCloudinary for upload w of request r
FilenameOf(r, w) ==
    IF w = "mockup" THEN MockupFilename ELSE req[r].file.originalname

\* C5 (as claimed): any two calls of uploadToCloudinary with the same filename
\* get different public_ids.
C5_DistinctPublicIds ==
    \A r, q \in Req : \A w, v \in Which :
        (/\ <<r, w>> # <<q, v>>
         /\ Started(r, w) /\ Started(q, v)
         /\ FilenameOf(r, w) = FilenameOf(q, v))
           => uploads[r][w].id # uploads[q][v].id

\* C6 (as claimed): a success response of /finalize-for-shopify holds two
\* distinct, non-empty URLs.
C6_TwoDistinctUrls ==
    \A r \in Req :
        response[r].kind = "json"
           => /\ response[r].mockupUrl # NoUrl
              /\ response[r].originalLogoUrl # NoUrl
              /\ response[r].mockupUrl # response[r].originalLogoUrl

\* C9 (as claimed): a request whose logo file cannot be decoded is answered
\* with a 4xx status.
C9_UndecodableLogoIsClientError ==
    \A r \in Req :
        (/\ pc[r] = "done"
         /\ req[r].file.present
         /\ ~req[r].file.decodable
         /\ failedStep[r] = StepIndex("logoResize"))
           => (response[r].status >= 400 /\ response[r].status <= 499)

\* the value of an integer double under 2^31 in magnitude, as are the pixel
\* values of the states checked
IntOf(x) == x[1] * (Limb(x[2], 1) + Base * Limb(x[2], 2) + Base * Base * Limb(x[2], 3))

Placed(r) == placement[r] # <<>>

\* C7 (as claimed): with logoX=0 and logoY=0 given explicitly, the resized logo
\* is centered on the canvas within one pixel, horizontally and vertically.
C7_ZeroOffsetsCenterTheLogo ==
    \A r \in Req :
        (/\ Placed(r)
         /\ req[r].body.logoX = <<"0">>
         /\ req[r].body.logoY = <<"0">>)
           => /\ Abs(2 * IntOf(placement[r][4])
                     - (canvas[r][1] - IntOf(placement[r][1]))) <= 2
              /\ Abs(2 * IntOf(placement[r][3])
                     - (IntOf(canvas[r][2]) - IntOf(placement[r][2]))) <= 2

\* Exact arithmetic on the values of the doubles: an integer of any size with
\* its sign is <<sign, n>>.
\* a + b
SignedSum(a, b) ==
    IF a[1] = b[1] THEN <<a[1], BigAdd(a[2], b[2])>>
    ELSE IF BigCmp(a[2], b[2]) >= 0 THEN <<a[1], BigSub(a[2], b[2])>>
    ELSE <<b[1], BigSub(b[2], a[2])>>

\* |a - b|
Distance(a, b) == SignedSum(a, <<0 - b[1], b[2]>>)[2]

\* m is round(0.4 * v): the integer m is within 1/2 of the number 0.4 * v, or
\* (not exact) within 1/2 + |v| / 2^53 of it, which allows for the rounding of
\* the literal 0.4 and of the product to doubles; an infinite v gives itself.
\* For v = V * 2^e the two sides are taken 10 * 2^(53 - e) times.
IsRoundOfScaled(m, v, exact) ==
    IF ~IsFinite(v) THEN m = v
    ELSE /\ IsInteger(m)
         /\ BigCmp(Distance(<<m[1], BigShiftLeft(BigMulSmall(m[2], 10), 53 - v[3])>>,
                            <<v[1], BigShiftLeft(BigMulSmall(v[2], 4), 53)>>),
                   BigAdd(BigShiftLeft(<<5>>, 53 - v[3]),
                          IF exact THEN <<>> ELSE BigMulSmall(v[2], 10))) <= 0

\* 2^(1 - e) times the number size / 2 - part / 2 + off, for the integers
\* size and part and off = V * 2^e
TwiceCentered(size, part, off) ==
    LET Shifted(d) ==
            SignedSum(<<d[1], BigShiftLeft(d[2], 0 - off[3])>>,
                      <<off[1], BigMulSmall(off[2], 2)>>)
    IN  Shifted(SignedSum(<<1, size[2]>>, <<-1, part[2]>>))

\* pos is round(size / 2 - part / 2 + off): the integer pos is within 1/2 of
\* that number s, or (not exact) within 1/2 + |s| / 2^53 of it, which allows
\* for the rounding of the sum to a double; an infinite off gives itself.
IsRoundOfCentered(pos, size, part, off, exact) ==
    IF ~IsFinite(off) THEN pos = off
    ELSE /\ IsInteger(pos)
         /\ LET Within(sum) ==
                    BigCmp(Distance(<<pos[1], BigShiftLeft(pos[2], 54 - off[3])>>,
                                    <<sum[1], BigShiftLeft(sum[2], 53)>>),
                           BigAdd(BigShiftLeft(<<1>>, 53 - off[3]),
                                  IF exact THEN <<>> ELSE sum[2])) <= 0
            IN  Within(TwiceCentered(size, part, off))

\* the config that the handler of r has just made from the request: /preview
\* has width 800 and round(0.4 * v) of the values v of /generate, whose width
\* is 2000
C8_ConfigStep(r, exact) ==
    (pc[r] = "idle" /\ pc'[r] = "raster") =>
        LET Agrees(full) ==
                /\ full.finalImageWidth = 2000
                /\ req'[r].endpoint = "generate" => config'[r] = full
                /\ req'[r].endpoint = "preview" =>
                      /\ config'[r].finalImageWidth = 800
                      /\ \A v \in {"logoWidth", "logoXOffset", "logoYOffset"} :
                             IsRoundOfScaled(config'[r][v], full[v], exact)
        IN  Agrees(GenerateConfig(req'[r].body))

\* the canvas that the handler of r has just sized
C8_CanvasStep(r) ==
    (canvas[r] = <<>> /\ canvas'[r] # <<>>) =>
        canvas'[r][1] = IF req[r].endpoint = "preview" THEN 800 ELSE 2000

\* the logo that the handler of r has just placed: logoLeft and logoTop from
\* the canvas, the resized logo and the effective offsets
C8_PlacementStep(r, exact) ==
    (placement[r] = <<>> /\ placement'[r] # <<>>) =>
        /\ placement'[r][1] = config[r].logoWidth
        /\ IsRoundOfCentered(placement'[r][4], Num(canvas[r][1]), placement'[r][1],
                             config[r].logoXOffset, exact)
        /\ IsRoundOfCentered(placement'[r][3], canvas[r][2], placement'[r][2],
                             config[r].logoYOffset, exact)

\* C8 (as claimed): /preview works on a canvas 800 wide with logo width and
\* offsets equal to round(0.4 * v) of the values v of /generate for the same
\* request, whose canvas is 2000 wide; in every endpoint logoLeft and logoTop
\* are round(canvas size / 2 - resized logo size / 2 + effective offset),
\* taken from the dimensions of the resized logo and of the resized canvas.
\* The products, the sums and their nearest integers are those of the
\* numbers.
C8_ExactScalingAndPlacement ==
    [][\A r \in Req : /\ C8_ConfigStep(r, TRUE)
                      /\ C8_CanvasStep(r)
                      /\ C8_PlacementStep(r, TRUE)]_vars

\* C8 (amended): the same, with each product and each sum rounded to a double
\* before its nearest integer is taken: the logo width and the offsets of
\* /preview are integers within 1/2 + |v| / 2^53 of 0.4 * v, logoLeft and
\* logoTop are integers within 1/2 + |s| / 2^53 of the sum s; infinite where
\* v, or the offset, is infinite.
C8_PreviewScalingAndPlacement ==
    [][\A r \in Req : /\ C8_ConfigStep(r, FALSE)
                      /\ C8_CanvasStep(r)
                      /\ C8_PlacementStep(r, FALSE)]_vars

\* C8 witness: a /preview request with logoX="\t2.5p", logoY="6.249999999999999"
\* and logoWidth="0x258" (600) has placed its logo: width 240, offsets 1 and 3
\* (the double 6.249999999999999 * 0.4 is 2.5, the number is under 2.5).
C8_Witness ==
    \E r \in Req :
        /\ Placed(r)
        /\ req[r].endpoint = "preview"
        /\ req[r].body.logoX = <<"\t", "2", ".", "5", "p">>
        /\ req[r].body.logoY =
             <<"6", ".", "2", "4", "9", "9", "9", "9", "9", "9", "9", "9", "9", "9",
               "9", "9", "9">>
        /\ req[r].body.logoWidth = <<"0", "x", "2", "5", "8">>
        /\ config[r].logoWidth = Num(240)
        /\ config[r].logoXOffset = Num(1)
        /\ config[r].logoYOffset = Num(3)
        /\ canvas[r][1] = 800
        /\ placement[r][1] = Num(240)

\* C10 (as claimed): every entry of textureCache holds the texture bytes of its
\* key, never undefined, for any textureType; every call that returns, on a
\* hit or on a miss, returns the texture bytes of its arguments.
C10_CacheHoldsTextureBytes ==
    /\ \A k \in DOMAIN textureCache : textureCache[k][1] = "png"
    /\ \A p \in Callers :
          (tex[p].pc = "returned" /\ tex[p].result # Thrown)
             => tex[p].result = TextureBytes(tex[p].args)

(***************************************************************************)
(* Specification of the layout: one request, many parameter values         *)
(***************************************************************************)
InitLayout ==
    /\ InitRequests
    /\ background \in BackgroundDims
    /\ textureCache = <<>>
    /\ tex = [p \in Callers |-> TexIdle]

LayoutReq == {"r1"}

ArriveLayout ==
    \E r \in LayoutReq, e \in Endpoints, f \in LayoutFiles, b \in LayoutBodies :
        Receive(r, e, f, b)

NextLayout ==
    \/ ArriveLayout /\ UNCHANGED texVars
    \/ (\E r \in LayoutReq : RasterOk(r)) /\ UNCHANGED texVars
    \/ (\E r \in LayoutReq : RasterFail(r)) /\ UNCHANGED texVars
    \/ (\E r \in LayoutReq : SendImage(r)) /\ UNCHANGED texVars
    \/ (\E r \in LayoutReq : StartUploads(r)) /\ UNCHANGED texVars
    \/ (\E r \in LayoutReq, w \in Which : UploadResolve(r, w)) /\ UNCHANGED texVars
    \/ (\E r \in LayoutReq, w \in Which : UploadReject(r, w)) /\ UNCHANGED texVars

SpecLayout == InitLayout /\ [][NextLayout]_vars

(***************************************************************************)
(* Specification of the texture helper: two concurrent callers             *)
(***************************************************************************)
NextTexture ==
    \/ (\E p \in Callers, a \in TextureArgs : TexCall(p, a)) /\ UNCHANGED reqVars
    \/ (\E p \in Callers : TexPattern(p)) /\ UNCHANGED reqVars
    \/ (\E p \in Callers : TexStore(p)) /\ UNCHANGED reqVars
    \/ (\E p \in Callers : TexThrow(p)) /\ UNCHANGED reqVars
    \/ (\E p \in Callers : TexDone(p)) /\ UNCHANGED reqVars

SpecTexture == Init /\ [][NextTexture]_vars
====
